---- MODULE Spec2Model ----
(***************************************************************************)
(* Design-Patterns-for-Finance: the three behavioural demonstrations that  *)
(* carry state and invariants.                                             *)
(*   Behavioral Patterns/State.py    - Order and its OrderState classes    *)
(*   Behavioral Patterns/Memento.py  - Account, Memento, Caretaker         *)
(*   Behavioral Patterns/Observer.py - WeatherData and its observers       *)
(* Each file is a program of its own, so each has its own specification    *)
(* (SpecOrder, SpecMemento, SpecObserver) over the shared variable tuple;  *)
(* a specification leaves the other programs' variables at their initial   *)
(* values.                                                                 *)
(* SpecScripts runs either of State.py and Memento.py; SpecThreads is      *)
(* Memento.py called from two threads at once; SpecReentrant is            *)
(* Observer.py with updates that call set_temperature, SpecDisplays is     *)
(* Observer.py with more observers, whose updates call detach at most.     *)
(*   Creational Patterns/Singleton.py - Logger              (SpecLogger)   *)
(*   Structural Patterns/Flyweight.py - TransactionFactory  (SpecFlyweight)*)
(*   Structural Patterns/Proxy.py     - MarketDataProxy     (SpecProxy)    *)
(*   Behavioral Patterns/Command.py   - Broker              (SpecBroker)   *)
(*   Behavioral Patterns/Iterator.py  - TransactionIterator (SpecIterator) *)
(***************************************************************************)
EXTENDS Integers, Sequences, FiniteSets

VARIABLES
    state,        \* State.py:   Order._state, as the name of its class's tag
    trace,        \* State.py:   the events the client has sent to the Order so far
    notified,     \* State.py:   how many notifications the Order has sent to observers
    balance,      \* Memento.py: Account._balance
    history,      \* Memento.py: Caretaker._history, a list of Memento objects
    saved,        \* Memento.py: the save() calls not yet undone, oldest first: [bal, moved]
    undone,       \* Memento.py: the save() the last call undid, <<[bal, moved]>>, or <<>>
    negative,     \* Memento.py: whether deposit or withdraw was called with a negative amount
    threads,      \* Memento.py: the concurrent callers: [pc, op, arg, local, ret, printed] each
    fork,         \* Memento.py: <<[balance, history]>> as the callers found them, or <<>>
    observers,    \* Observer.py: WeatherData._observers, a list of observer objects
    temperature,  \* Observer.py: WeatherData._temperature
    pc,           \* Observer.py: where control is: with the client, in notify's loop, in an update
    idx,          \* Observer.py: how many elements notify's list iterator has yielded
    updating,     \* Observer.py: the observer whose update is running, or NoObserver
    delivered,    \* Observer.py: the updates delivered since the client's last call, [observer, value]
    changed,      \* Observer.py: whether the registry changed while that call's notify ran
    stayed,       \* Observer.py: the observers registered at that call and not detached since
    atStart,      \* Observer.py: the observers registered when that call was made
    selfDetached, \* Observer.py: the observers that detached themselves in their update since
    foreign,      \* Observer.py: whether the registry changed since otherwise than by those
    firstOrder,   \* Observer.py: every observer ever attached, in the order of its first attach
    regOrder,     \* Observer.py: the registered observers in the order of their registrations
    frames,       \* Observer.py: the notify loops suspended by a set_temperature call that an
                  \*              update made, outermost first: [idx, updating, cycle] each
    cycle,        \* Observer.py: the number, in cycles, of the call whose loop is running
    cycles,       \* Observer.py: the set_temperature calls since the client's last call,
                  \*              [value, registered] each: the argument, the observers then
    received,     \* Observer.py: the updates delivered since then, [cycle, observer, value]
    Logger_instance, \* Singleton.py: Logger._instance, a Logger object or NoObject
    loggers,      \* Singleton.py: the Logger objects created so far, [initialized, log_file] each
    logger_refs,  \* Singleton.py: what the client's Logger() calls returned, in order
    log_files,    \* Singleton.py: the lines of each log file
    TransactionFactory_transactions, \* Flyweight.py: the class's dict, key to object
    flyweights,   \* Flyweight.py: the TradeTransaction objects created, [trade_type, symbol] each
    got,          \* Flyweight.py: what the client's get_transaction calls returned, [key, object]
    cache,        \* Proxy.py: MarketDataProxy.cache, a dict from symbol to data object
    fetches,      \* Proxy.py: the symbols RealMarketData.get_data was called with, in order
    answers,      \* Proxy.py: what the proxy's get_data calls returned, [symbol, data]
    commands,     \* Command.py: Broker._commands, a list of command objects
    added,        \* Command.py: every command add_command has received, in order
    executed,     \* Command.py: every execution of a command, in order, [command, run]
    runs,         \* Command.py: how many execute_commands calls were made
    transactions, \* Iterator.py: the list TransactionCollection and its iterator share
    has_iterator, \* Iterator.py: whether the client has created an iterator
    index,        \* Iterator.py: TransactionIterator._index of the client's latest iterator
    returned,     \* Iterator.py: what the next() calls on that iterator returned, in order
    modified,     \* Iterator.py: whether the collection was added to since it was created
    call,         \* the call the client made last, [op, arg]
    ret,          \* what the last call gave back to its caller (a value or a raised exception)
    printed       \* the lines the last call wrote to stdout

vars == <<state, trace, notified, balance, history, saved, undone, negative, threads, fork, observers, temperature, pc, idx,
          updating, delivered, changed, stayed, atStart, selfDetached, foreign,
          firstOrder, regOrder, frames, cycle, cycles, received, Logger_instance, loggers, logger_refs, log_files,
          TransactionFactory_transactions, flyweights, got, cache,
          fetches, answers, commands, added, executed, runs,
          transactions, has_iterator, index, returned, modified, call, ret, printed>>

\* The variables of each program, and of the programs added to the first three.
orderVars == <<state, trace, notified>>
mementoVars == <<balance, history, saved, undone, negative, threads, fork>>
observerVars == <<observers, temperature, pc, idx, updating, delivered, changed, stayed,
                  atStart, selfDetached, foreign, firstOrder, regOrder, frames, cycle, cycles, received>>
loggerVars == <<Logger_instance, loggers, logger_refs, log_files>>
flyweightVars == <<TransactionFactory_transactions, flyweights, got>>
proxyVars == <<cache, fetches, answers>>
brokerVars == <<commands, added, executed, runs>>
iteratorVars == <<transactions, has_iterator, index, returned, modified>>
otherPrograms == <<loggerVars, flyweightVars, proxyVars, brokerVars, iteratorVars>>

(***************************************************************************)
(* Bounds of the model.                                                    *)
(***************************************************************************)
MaxEvents == 7
MaxAmount == 2
MaxBalance == 2
MaxHistory == 2
NumObservers == 2
MaxTemperature == 2
MaxLoggers == 3
MaxLines == 2
MaxGets == 4
MaxRequests == 5
MaxCommands == 4
MaxRuns == 3
MaxTransactions == 3
MaxCalls == 3
NumDisplays == 3

----------------------------------------------------------------------------
(***************************************************************************)
(* State.py                                                                *)
(***************************************************************************)

\* The three concrete OrderState classes (State.py:44, 53, 61).
Tags == {"New", "Filled", "Cancelled"}

\* The client's two requests: Order.process() is the event fill, Order.cancel() the event cancel.
Events == {"fill", "cancel"}

\* Order.set_state (State.py:76-77).
set_state(s) == state' = s

\* A method that falls off its end, or executes a bare return, returns None.
None == "None"

\* NewOrderState.process (State.py:45-47).
NewOrderState_process ==
    /\ printed' = <<"Processing new order.">>
    /\ set_state("Filled")

\* NewOrderState.cancel (State.py:49-51).
NewOrderState_cancel ==
    /\ printed' = <<"Cancelling new order.">>
    /\ set_state("Cancelled")

\* FilledOrderState.process (State.py:54-55).
FilledOrderState_process ==
    /\ printed' = <<"Order already filled.">>
    /\ UNCHANGED state

\* FilledOrderState.cancel as it would be without its set_state call: breaks C1.
FilledOrderState_cancel_noTransition ==
    /\ printed' = <<"Cancelling filled order.">>
    /\ UNCHANGED state

\* FilledOrderState.cancel (State.py:57-59).
FilledOrderState_cancel ==
    /\ printed' = <<"Cancelling filled order.">>
    /\ set_state("Cancelled")

\* CancelledOrderState.process as it would be with NewOrderState's set_state call: breaks C2.
CancelledOrderState_process_refills ==
    /\ printed' = <<"Cannot process a cancelled order.">>
    /\ set_state("Filled")

\* CancelledOrderState.process (State.py:62-63).
CancelledOrderState_process ==
    /\ printed' = <<"Cannot process a cancelled order.">>
    /\ UNCHANGED state

\* CancelledOrderState.cancel as it would be with set_state(None): breaks C4.
CancelledOrderState_cancel_dropsState ==
    /\ printed' = <<"Order already cancelled.">>
    /\ set_state(None)

\* CancelledOrderState.cancel (State.py:65-66).
CancelledOrderState_cancel ==
    /\ printed' = <<"Order already cancelled.">>
    /\ UNCHANGED state

\* Order.process (State.py:79-80): dispatch on the class of self._state, and nothing
\* else: the Order holds no observers and sends no notification.
Order_process ==
    /\ Len(trace) < MaxEvents
    /\ \/ state = "New" /\ NewOrderState_process
       \/ state = "Filled" /\ FilledOrderState_process
       \/ state = "Cancelled" /\ CancelledOrderState_process
    /\ ret' = None
    /\ trace' = Append(trace, "fill")
    /\ UNCHANGED notified

\* Order.cancel (State.py:82-83): dispatch on the class of self._state, and nothing else.
Order_cancel ==
    /\ Len(trace) < MaxEvents
    /\ \/ state = "New" /\ NewOrderState_cancel
       \/ state = "Filled" /\ FilledOrderState_cancel
       \/ state = "Cancelled" /\ CancelledOrderState_cancel
    /\ ret' = None
    /\ trace' = Append(trace, "cancel")
    /\ UNCHANGED notified

\* The client's calls on the Order (as in State.py:89-98, in any order).
Client_process ==
    /\ Order_process
    /\ UNCHANGED <<balance, history, saved, undone, negative, threads, fork, otherPrograms, observers, temperature, pc, idx,
                   updating, delivered, changed, stayed, atStart, selfDetached, foreign,
                   firstOrder, regOrder, frames, cycle, cycles, received, call>>

Client_cancel ==
    /\ Order_cancel
    /\ UNCHANGED <<balance, history, saved, undone, negative, threads, fork, otherPrograms, observers, temperature, pc, idx,
                   updating, delivered, changed, stayed, atStart, selfDetached, foreign,
                   firstOrder, regOrder, frames, cycle, cycles, received, call>>

\* Order.__init__ (State.py:73-74).
OrderInit ==
    /\ state = "New"
    /\ trace = <<>>
    /\ notified = 0

----------------------------------------------------------------------------
(***************************************************************************)
(* Memento.py                                                              *)
(***************************************************************************)

\* The amounts the client passes to deposit and withdraw. The code takes any number,
\* so a negative one is among them.
Amounts == (0 - 1) .. MaxAmount

\* The balances the model follows (Python integers are unbounded).
Balances == (0 - MaxBalance) .. MaxBalance

\* Memento.__init__ (Memento.py:28-29). The field is bound to a Python int, which is
\* immutable: the object holds the number itself.
Memento(b) == [balance |-> b]

\* Memento.get_saved_state (Memento.py:31-32).
get_saved_state(memento) == memento.balance

\* The exception Account.withdraw raises (Memento.py:47).
InsufficientFunds == "ValueError: Insufficient funds"

\* Account.deposit as it would be if the latest Memento shared the Account's state: breaks C8.
Account_deposit_aliased(amount) ==
    /\ balance' = balance + amount
    /\ history' = [i \in DOMAIN history |->
                     IF i = Len(history) THEN Memento(balance + amount) ELSE history[i]]
    /\ ret' = None
    /\ printed' = <<>>

\* Account.deposit (Memento.py:42-43).
Account_deposit(amount) ==
    /\ balance' = balance + amount
    /\ ret' = None
    /\ printed' = <<>>
    /\ UNCHANGED history

\* Account.withdraw as it would be with ">=" in its test: breaks C26.
Account_withdraw_inclusive(amount) ==
    /\ IF amount >= balance
       THEN /\ ret' = InsufficientFunds
            /\ UNCHANGED balance
       ELSE /\ balance' = balance - amount
            /\ ret' = None
    /\ printed' = <<>>
    /\ UNCHANGED history

\* Account.withdraw as it would be without its test: breaks C27.
Account_withdraw_unchecked(amount) ==
    /\ balance' = balance - amount
    /\ ret' = None
    /\ printed' = <<>>
    /\ UNCHANGED history

\* Account.withdraw (Memento.py:45-48).
Account_withdraw(amount) ==
    /\ IF amount > balance
       THEN /\ ret' = InsufficientFunds
            /\ UNCHANGED balance
       ELSE /\ balance' = balance - amount
            /\ ret' = None
    /\ printed' = <<>>
    /\ UNCHANGED history

\* Account.get_balance (Memento.py:50-51).
Account_get_balance ==
    /\ ret' = balance
    /\ printed' = <<>>
    /\ UNCHANGED <<balance, history>>

\* Account.save_state (Memento.py:53-54).
Account_save_state == Memento(balance)

\* Account.restore_state (Memento.py:56-57).
Account_restore_state(memento) == balance' = get_saved_state(memento)

\* Caretaker.save as it would be if it reset the account it took the snapshot of:
\* breaks C19.
Caretaker_save_resets ==
    /\ history' = Append(history, Account_save_state)
    /\ balance' = 0
    /\ ret' = None
    /\ printed' = <<>>

\* Caretaker.save as it would be if it skipped a snapshot equal to the latest one:
\* breaks C20.
Caretaker_save_dedups ==
    /\ history' = IF history # <<>> /\ history[Len(history)] = Account_save_state
                  THEN history
                  ELSE Append(history, Account_save_state)
    /\ ret' = None
    /\ printed' = <<>>
    /\ UNCHANGED balance

\* Caretaker.save (Memento.py:68-69).
Caretaker_save ==
    /\ history' = Append(history, Account_save_state)
    /\ ret' = None
    /\ printed' = <<>>
    /\ UNCHANGED balance

\* Caretaker.undo as it would be with pop(0): breaks C5.
Caretaker_undo_oldestFirst ==
    IF history = <<>>
    THEN /\ printed' = <<"No states to restore">>
         /\ ret' = None
         /\ UNCHANGED <<balance, history>>
    ELSE /\ history' = Tail(history)
         /\ Account_restore_state(Head(history))
         /\ ret' = None
         /\ printed' = <<>>

\* Caretaker.undo as it would be if it popped the last snapshot and restored the oldest.
Caretaker_undo_restoresOldest ==
    IF history = <<>>
    THEN /\ printed' = <<"No states to restore">>
         /\ ret' = None
         /\ UNCHANGED <<balance, history>>
    ELSE /\ history' = SubSeq(history, 1, Len(history) - 1)
         /\ Account_restore_state(history[1])
         /\ ret' = None
         /\ printed' = <<>>

\* Caretaker.undo as it would be if it emptied the history.
Caretaker_undo_clears ==
    IF history = <<>>
    THEN /\ printed' = <<"No states to restore">>
         /\ ret' = None
         /\ UNCHANGED <<balance, history>>
    ELSE /\ history' = <<>>
         /\ Account_restore_state(history[Len(history)])
         /\ ret' = None
         /\ printed' = <<>>

\* Caretaker.undo as it would be without its emptiness test: breaks C17.
Caretaker_undo_unguarded ==
    IF history = <<>>
    THEN /\ printed' = <<>>
         /\ ret' = "IndexError: pop from empty list"
         /\ UNCHANGED <<balance, history>>
    ELSE /\ history' = SubSeq(history, 1, Len(history) - 1)
         /\ Account_restore_state(history[Len(history)])
         /\ ret' = None
         /\ printed' = <<>>

\* Caretaker.undo (Memento.py:71-76): list.pop() takes the last element.
Caretaker_undo ==
    IF history = <<>>
    THEN /\ printed' = <<"No states to restore">>
         /\ ret' = None
         /\ UNCHANGED <<balance, history>>
    ELSE /\ history' = SubSeq(history, 1, Len(history) - 1)
         /\ Account_restore_state(history[Len(history)])
         /\ ret' = None
         /\ printed' = <<>>

\* The threads of a client that calls the Account and the Caretaker from two threads at
\* once. Memento.py takes no lock, so the callers interleave between any two accesses to
\* self._balance and self._history.
Threads == {"t1", "t2"}

\* A thread that has made no call.
NoCall == [pc |-> "off", op |-> "none", arg |-> 0, local |-> 0, ret |-> None, printed |-> <<>>]

\* The calls a thread makes.
Calls ==
    {[op |-> "deposit", arg |-> a] : a \in Amounts}
    \cup {[op |-> "withdraw", arg |-> a] : a \in Amounts}
    \cup {[op |-> "save", arg |-> 0], [op |-> "undo", arg |-> 0]}

\* The thread's step: its record changes as given.
Goes(t, to, local) == threads' = [threads EXCEPT ![t].pc = to, ![t].local = local]

\* The thread's call ends, with what it returns or raises and what it has printed.
Ends(t, r, p) ==
    threads' = [threads EXCEPT ![t].pc = "done", ![t].ret = r, ![t].printed = p]

At(t, pc_, op) == threads[t].pc = pc_ /\ threads[t].op = op

\* Account.deposit (Memento.py:43), "self._balance += amount": the read of the
\* attribute, and then the addition and the assignment.
Thread_deposit_load(t) ==
    /\ At(t, "called", "deposit")
    /\ Goes(t, "loaded", balance)
    /\ UNCHANGED <<balance, history>>

Thread_deposit_store(t) ==
    /\ At(t, "loaded", "deposit")
    /\ balance' = threads[t].local + threads[t].arg
    /\ Ends(t, None, <<>>)
    /\ UNCHANGED history

\* Account.withdraw (Memento.py:45-48): the test (Memento.py:46), and then
\* "self._balance -= amount" as a read and an assignment.
Thread_withdraw_test(t) ==
    /\ At(t, "called", "withdraw")
    /\ IF threads[t].arg > balance
       THEN Ends(t, InsufficientFunds, <<>>)
       ELSE Goes(t, "tested", 0)
    /\ UNCHANGED <<balance, history>>

Thread_withdraw_load(t) ==
    /\ At(t, "tested", "withdraw")
    /\ Goes(t, "loaded", balance)
    /\ UNCHANGED <<balance, history>>

Thread_withdraw_store(t) ==
    /\ At(t, "loaded", "withdraw")
    /\ balance' = threads[t].local - threads[t].arg
    /\ Ends(t, None, <<>>)
    /\ UNCHANGED history

\* Caretaker.save (Memento.py:69): self._account.save_state() makes the Memento of the
\* balance it reads, and then list.append puts it into the history.
Thread_save_snapshot(t) ==
    /\ At(t, "called", "save")
    /\ Goes(t, "loaded", Account_save_state)
    /\ UNCHANGED <<balance, history>>

Thread_save_append(t) ==
    /\ At(t, "loaded", "save")
    /\ history' = Append(history, threads[t].local)
    /\ Ends(t, None, <<>>)
    /\ UNCHANGED balance

\* Caretaker.undo (Memento.py:71-76): the test of the history (Memento.py:72), then
\* list.pop (Memento.py:75), which raises IndexError on an empty list, then
\* restore_state (Memento.py:76).
Thread_undo_test(t) ==
    /\ At(t, "called", "undo")
    /\ IF history = <<>>
       THEN Ends(t, None, <<"No states to restore">>)
       ELSE Goes(t, "tested", 0)
    /\ UNCHANGED <<balance, history>>

Thread_undo_pop(t) ==
    /\ At(t, "tested", "undo")
    /\ IF history = <<>>
       THEN /\ Ends(t, "IndexError: pop from empty list", <<>>)
            /\ UNCHANGED history
       ELSE /\ Goes(t, "loaded", history[Len(history)])
            /\ history' = SubSeq(history, 1, Len(history) - 1)
    /\ UNCHANGED balance

Thread_undo_restore(t) ==
    /\ At(t, "loaded", "undo")
    /\ Account_restore_state(threads[t].local)
    /\ Ends(t, None, <<>>)
    /\ UNCHANGED history

\* Account.__init__ and Caretaker.__init__ (Memento.py:39-40, 64-66).
MementoInit ==
    /\ balance = 0
    /\ history = <<>>
    /\ saved = <<>>
    /\ undone = <<>>
    /\ negative = FALSE
    /\ threads = [t \in Threads |-> NoCall]
    /\ fork = <<>>

\* The client's calls (as in Memento.py:82-113, in any order and with any amounts). The
\* client keeps its own notes of what save() and undo() are to mean: save() notes the
\* balance current at the call (bal), a deposit or withdrawal that changes the balance
\* marks every note (moved), and undo() strikes the latest note not yet struck and
\* remembers it in undone.
MarkMoved(notes) == [i \in DOMAIN notes |-> [notes[i] EXCEPT !.moved = TRUE]]

Client_deposit ==
    \E amount \in Amounts :
        /\ balance + amount \in Balances
        /\ Account_deposit(amount)
        /\ call' = [op |-> "deposit", arg |-> amount]
        /\ negative' = (negative \/ amount < 0)
        /\ saved' = IF balance' # balance THEN MarkMoved(saved) ELSE saved
        /\ undone' = <<>>
        /\ UNCHANGED <<threads, fork, otherPrograms, state, trace, notified, observers, temperature, pc, idx, updating, delivered,
                       changed, stayed, atStart, selfDetached, foreign,
                       firstOrder, regOrder, frames, cycle, cycles, received>>

Client_withdraw ==
    \E amount \in Amounts :
        /\ balance - amount \in Balances
        /\ Account_withdraw(amount)
        /\ call' = [op |-> "withdraw", arg |-> amount]
        /\ negative' = (negative \/ amount < 0)
        /\ saved' = IF balance' # balance THEN MarkMoved(saved) ELSE saved
        /\ undone' = <<>>
        /\ UNCHANGED <<threads, fork, otherPrograms, state, trace, notified, observers, temperature, pc, idx, updating, delivered,
                       changed, stayed, atStart, selfDetached, foreign,
                       firstOrder, regOrder, frames, cycle, cycles, received>>

Client_get_balance ==
    /\ Account_get_balance
    /\ call' = [op |-> "get_balance", arg |-> 0]
    /\ UNCHANGED negative
    /\ undone' = <<>>
    /\ UNCHANGED saved
    /\ UNCHANGED <<threads, fork, otherPrograms, state, trace, notified, observers, temperature, pc, idx, updating, delivered,
                   changed, stayed, atStart, selfDetached, foreign, firstOrder,
                   regOrder, frames, cycle, cycles, received>>

Client_save ==
    /\ Len(history) < MaxHistory
    /\ Caretaker_save
    /\ call' = [op |-> "save", arg |-> 0]
    /\ UNCHANGED negative
    /\ saved' = Append(saved, [bal |-> balance, moved |-> FALSE])
    /\ undone' = <<>>
    /\ UNCHANGED <<threads, fork, otherPrograms, state, trace, notified, observers, temperature, pc, idx, updating, delivered,
                   changed, stayed, atStart, selfDetached, foreign, firstOrder,
                   regOrder, frames, cycle, cycles, received>>

Client_undo ==
    /\ Caretaker_undo
    /\ call' = [op |-> "undo", arg |-> 0]
    /\ UNCHANGED negative
    /\ saved' = IF saved = <<>> THEN saved ELSE SubSeq(saved, 1, Len(saved) - 1)
    /\ undone' = IF saved = <<>> THEN <<>> ELSE <<saved[Len(saved)]>>
    /\ UNCHANGED <<threads, fork, otherPrograms, state, trace, notified, observers, temperature, pc, idx, updating, delivered,
                   changed, stayed, atStart, selfDetached, foreign, firstOrder,
                   regOrder, frames, cycle, cycles, received>>

\* The client with two threads: it makes its calls one after the other (Main_...), and
\* then each thread makes one call on the same Account and Caretaker (Fork), and the
\* threads run, a step of the one or of the other at a time. The notes saved, undone
\* and negative belong to the calls made one after the other, and are put away at the fork.
Forked == fork # <<>>

OthersUnchanged ==
    UNCHANGED <<otherPrograms, state, trace, notified, observers, temperature, pc, idx, updating, delivered,
                changed, stayed, atStart, selfDetached, foreign, firstOrder,
                regOrder, frames, cycle, cycles, received>>

Main_deposit == ~Forked /\ Client_deposit
Main_withdraw == ~Forked /\ Client_withdraw
Main_save == ~Forked /\ Client_save
Main_undo == ~Forked /\ Client_undo

Fork ==
    /\ ~Forked
    /\ \E calls \in [Threads -> Calls] :
          threads' = [t \in Threads |->
                        [NoCall EXCEPT !.pc = "called", !.op = calls[t].op,
                                       !.arg = calls[t].arg]]
    /\ fork' = <<[balance |-> balance, history |-> history]>>
    /\ saved' = <<>>
    /\ undone' = <<>>
    /\ negative' = FALSE
    /\ call' = [op |-> "fork", arg |-> 0]
    /\ ret' = None
    /\ printed' = <<>>
    /\ UNCHANGED <<balance, history>>
    /\ OthersUnchanged

ThreadFrame ==
    /\ UNCHANGED <<fork, saved, undone, negative, call, ret, printed>>
    /\ OthersUnchanged

Run_deposit_load == \E t \in Threads : Thread_deposit_load(t) /\ ThreadFrame
Run_deposit_store == \E t \in Threads : Thread_deposit_store(t) /\ ThreadFrame
Run_withdraw_test == \E t \in Threads : Thread_withdraw_test(t) /\ ThreadFrame
Run_withdraw_load == \E t \in Threads : Thread_withdraw_load(t) /\ ThreadFrame
Run_withdraw_store == \E t \in Threads : Thread_withdraw_store(t) /\ ThreadFrame
Run_save_snapshot == \E t \in Threads : Thread_save_snapshot(t) /\ ThreadFrame
Run_save_append == \E t \in Threads : Thread_save_append(t) /\ ThreadFrame
Run_undo_test == \E t \in Threads : Thread_undo_test(t) /\ ThreadFrame
Run_undo_pop == \E t \in Threads : Thread_undo_pop(t) /\ ThreadFrame
Run_undo_restore == \E t \in Threads : Thread_undo_restore(t) /\ ThreadFrame

----------------------------------------------------------------------------
(***************************************************************************)
(* Observer.py                                                             *)
(***************************************************************************)

\* The observer objects of the client. The classes of Observer.py define no __eq__, so
\* "in" and list.remove compare them by identity.
Observers == 1 .. NumObservers

\* The observer objects of a client with more of them, whose updates call detach at most.
Displays == 1 .. NumDisplays
NoObserver == 0

\* The temperatures the client sets; WeatherData starts at 0 (Observer.py:54).
Temperatures == 1 .. MaxTemperature

\* "observer in self._observers" (Observer.py:57, 61).
Registered(observer) == \E i \in DOMAIN observers : observers[i] = observer

\* The elements of self._observers.
RegisteredNow == {observers[i] : i \in DOMAIN observers}

\* list.remove (Observer.py:62): drops the first element equal to x.
RECURSIVE Remove(_, _)
Remove(list, x) ==
    IF list = <<>> THEN <<>>
    ELSE IF Head(list) = x THEN Tail(list)
    ELSE <<Head(list)>> \o Remove(Tail(list), x)

\* WeatherData.attach (Observer.py:56-58).
WeatherData_attach(observer) ==
    /\ IF ~Registered(observer)
       THEN observers' = Append(observers, observer)
       ELSE UNCHANGED observers
    /\ ret' = None

\* WeatherData.detach as it would be if it filled the place of the removed observer with
\* the last one of the list instead of closing the gap.
WeatherData_detach_swaps(observer) ==
    /\ IF Registered(observer)
       THEN LET at == CHOOSE i \in DOMAIN observers : observers[i] = observer
                last == observers[Len(observers)]
            IN  observers' = IF at = Len(observers)
                             THEN SubSeq(observers, 1, Len(observers) - 1)
                             ELSE [i \in 1 .. Len(observers) - 1 |->
                                      IF i = at THEN last ELSE observers[i]]
       ELSE UNCHANGED observers
    /\ ret' = None

\* WeatherData.detach (Observer.py:60-62).
WeatherData_detach(observer) ==
    /\ IF Registered(observer)
       THEN observers' = Remove(observers, observer)
       ELSE UNCHANGED observers
    /\ ret' = None

\* As set_temperature would be if it called notify before storing the temperature.
WeatherData_set_temperature_notifiesFirst(t) ==
    /\ temperature' = temperature
    /\ pc' = "notify"
    /\ idx' = 0
    /\ UNCHANGED <<observers, updating, ret>>

\* WeatherData.set_temperature (Observer.py:68-70): the assignment, then the call of
\* notify, whose for statement (Observer.py:65) makes an iterator over the list itself.
WeatherData_set_temperature(t) ==
    /\ temperature' = t
    /\ pc' = "notify"
    /\ idx' = 0
    /\ UNCHANGED <<observers, updating, ret>>

\* One turn of WeatherData.notify's for loop (Observer.py:65-66). The list iterator
\* holds an index into the live list: it yields the element at the index while the index
\* is inside the list as it is now, and ends the loop otherwise; then notify and
\* set_temperature return None.
WeatherData_notify ==
    IF idx < Len(observers)
    THEN /\ updating' = observers[idx + 1]
         /\ idx' = idx + 1
         /\ delivered' = Append(delivered,
                                [observer |-> observers[idx + 1], value |-> temperature])
         /\ pc' = "update"
         /\ UNCHANGED <<observers, temperature, ret>>
    ELSE /\ pc' = "idle"
         /\ ret' = None
         /\ UNCHANGED <<observers, temperature, idx, updating, delivered>>

\* The classes of the client's observers, as in Observer.py:103-107: the first is a
\* TemperatureDisplay, the second a HumidityDisplay, and so on in turn (or a subclass of
\* these, whose update also calls the subject).
ClassOf(observer) ==
    IF observer % 2 = 1 THEN "TemperatureDisplay" ELSE "HumidityDisplay"

\* TemperatureDisplay.update (Observer.py:87-88) and HumidityDisplay.update
\* (Observer.py:91-94): the line printed, as the parts of its f-string.
Observer_update(observer, t) ==
    IF ClassOf(observer) = "TemperatureDisplay"
    THEN <<"Temperature Display: Current temperature is", t, "°C">>
    ELSE LET humidity == 100 - t
         IN  <<"Humidity Display: Current humidity is", humidity, "%">>

\* Observer.update prints its line and returns to the loop (Observer.py:87-88, 91-94).
Observer_update_return(observer, t) ==
    /\ printed' = Append(printed, Observer_update(observer, t))
    /\ pc' = "notify"
    /\ updating' = NoObserver
    /\ UNCHANGED <<observers, temperature, idx, delivered, ret>>

\* What reaches the caller of set_temperature when an update raises.
UpdateError == "Exception raised in Observer.update"

\* Observer.update raises (a client's class, or HumidityDisplay.update, Observer.py:93,
\* when the temperature is no number). notify (Observer.py:64-66) and set_temperature
\* (Observer.py:68-70) have no try statement: the exception ends the loop and both calls
\* and reaches the client.
Observer_update_raise ==
    /\ pc' = "idle"
    /\ updating' = NoObserver
    /\ ret' = UpdateError
    /\ UNCHANGED <<observers, temperature, idx, delivered>>

\* WeatherData.__init__ (Observer.py:52-54).
ObserverInit ==
    /\ observers = <<>>
    /\ temperature = 0
    /\ pc = "idle"
    /\ idx = 0
    /\ updating = NoObserver
    /\ delivered = <<>>
    /\ changed = FALSE
    /\ stayed = {}
    /\ atStart = {}
    /\ selfDetached = {}
    /\ foreign = FALSE
    /\ firstOrder = <<>>
    /\ regOrder = <<>>
    /\ frames = <<>>
    /\ cycle = 0
    /\ cycles = <<>>
    /\ received = <<>>

InSeq(x, list) == \E i \in DOMAIN list : list[i] = x

\* The calls on the subject: the client's (pc = "idle", as in Observer.py:100-119) and
\* those an observer's update makes while it runs (pc = "update"; the update of a client's
\* Observer subclass may call attach and detach on the subject that notifies it). The
\* notes kept beside them: delivered, changed, stayed, atStart, selfDetached and foreign
\* start afresh with each call of the client; firstOrder and regOrder follow the attach
\* and detach calls as an insertion-ordered set would.
Call_attach(observer) ==
        /\ pc \in {"idle", "update"}
        /\ WeatherData_attach(observer)
        /\ changed' = IF pc = "idle" THEN FALSE ELSE (changed \/ observers' # observers)
        /\ delivered' = IF pc = "idle" THEN <<>> ELSE delivered
        /\ call' = IF pc = "idle" THEN [op |-> "attach", arg |-> observer] ELSE call
        /\ stayed' = IF pc = "idle" THEN {} ELSE stayed
        /\ atStart' = IF pc = "idle" THEN {} ELSE atStart
        /\ selfDetached' = IF pc = "idle" THEN {} ELSE selfDetached
        /\ foreign' = IF pc = "idle" THEN FALSE ELSE (foreign \/ observers' # observers)
        /\ firstOrder' = IF InSeq(observer, firstOrder)
                         THEN firstOrder ELSE Append(firstOrder, observer)
        /\ regOrder' = IF InSeq(observer, regOrder)
                       THEN regOrder ELSE Append(regOrder, observer)
        /\ cycle' = IF pc = "idle" THEN 0 ELSE cycle
        /\ cycles' = IF pc = "idle" THEN <<>> ELSE cycles
        /\ received' = IF pc = "idle" THEN <<>> ELSE received
        /\ UNCHANGED frames
        /\ printed' = IF pc = "idle" THEN <<>> ELSE printed
        /\ UNCHANGED <<temperature, pc, idx, updating>>
        /\ UNCHANGED <<state, trace, notified, balance, history, saved, undone, negative, threads, fork,
                       otherPrograms>>

Caller_attach == \E observer \in Observers : Call_attach(observer)

Call_detach(observer) ==
        /\ pc \in {"idle", "update"}
        /\ WeatherData_detach(observer)
        /\ changed' = IF pc = "idle" THEN FALSE ELSE (changed \/ observers' # observers)
        /\ delivered' = IF pc = "idle" THEN <<>> ELSE delivered
        /\ call' = IF pc = "idle" THEN [op |-> "detach", arg |-> observer] ELSE call
        /\ stayed' = IF pc = "idle" THEN {} ELSE stayed \ {observer}
        /\ atStart' = IF pc = "idle" THEN {} ELSE atStart
        /\ selfDetached' = IF pc = "idle" THEN {}
                           ELSE IF observer = updating /\ observers' # observers
                                THEN selfDetached \cup {observer} ELSE selfDetached
        /\ foreign' = IF pc = "idle" THEN FALSE
                      ELSE (foreign \/ (observer # updating /\ observers' # observers))
        /\ regOrder' = Remove(regOrder, observer)
        /\ cycle' = IF pc = "idle" THEN 0 ELSE cycle
        /\ cycles' = IF pc = "idle" THEN <<>> ELSE cycles
        /\ received' = IF pc = "idle" THEN <<>> ELSE received
        /\ UNCHANGED frames
        /\ printed' = IF pc = "idle" THEN <<>> ELSE printed
        /\ UNCHANGED <<temperature, pc, idx, updating, firstOrder>>
        /\ UNCHANGED <<state, trace, notified, balance, history, saved, undone, negative, threads, fork,
                       otherPrograms>>

Caller_detach == \E observer \in Observers : Call_detach(observer)

Client_set_temperature ==
    \E t \in Temperatures :
        /\ pc = "idle"
        /\ WeatherData_set_temperature(t)
        /\ changed' = FALSE
        /\ stayed' = RegisteredNow
        /\ atStart' = RegisteredNow
        /\ selfDetached' = {}
        /\ foreign' = FALSE
        /\ delivered' = <<>>
        /\ call' = [op |-> "set_temperature", arg |-> t]
        /\ cycle' = 1
        /\ cycles' = <<[value |-> t, registered |-> RegisteredNow]>>
        /\ received' = <<>>
        /\ printed' = <<>>
        /\ UNCHANGED <<firstOrder, regOrder, frames>>
        /\ UNCHANGED <<state, trace, notified, balance, history, saved, undone, negative, threads, fork,
                       otherPrograms>>

Notify_step ==
    /\ pc = "notify"
    /\ idx < Len(observers) \/ frames = <<>>
    /\ WeatherData_notify
    /\ received' = IF idx < Len(observers)
                   THEN Append(received, [cycle |-> cycle, observer |-> observers[idx + 1],
                                          value |-> temperature])
                   ELSE received
    /\ UNCHANGED <<changed, stayed, atStart, selfDetached, foreign, firstOrder,
                   regOrder, frames, cycle, cycles, call, printed>>
    /\ UNCHANGED <<state, trace, notified, balance, history, saved, undone, negative, threads, fork,
                       otherPrograms>>

\* The temperature the running update was called with: that of the latest update of
\* the running loop.
UpdateArgument ==
    LET own == {i \in DOMAIN received : received[i].cycle = cycle}
        last == CHOOSE i \in own : \A j \in own : j <= i
    IN  received[last].value

Update_return ==
    /\ pc = "update"
    /\ Observer_update_return(updating, UpdateArgument)
    /\ UNCHANGED received
    /\ UNCHANGED <<changed, stayed, atStart, selfDetached, foreign, firstOrder,
                   regOrder, frames, cycle, cycles, call>>
    /\ UNCHANGED <<state, trace, notified, balance, history, saved, undone, negative, threads, fork,
                       otherPrograms>>

Update_raise ==
    /\ pc = "update"
    /\ Observer_update_raise
    /\ frames' = <<>>
    /\ UNCHANGED received
    /\ UNCHANGED <<changed, stayed, atStart, selfDetached, foreign, firstOrder,
                   regOrder, cycle, cycles, call, printed>>
    /\ UNCHANGED <<state, trace, notified, balance, history, saved, undone, negative, threads, fork,
                       otherPrograms>>

\* The end of a notify loop that a set_temperature call made inside an update started
\* (Observer.py:65): notify and set_temperature return None to that update, whose own
\* loop, suspended in Observer.py:66, has kept its iterator.
WeatherData_notify_returns_to_update ==
    /\ idx >= Len(observers)
    /\ pc' = "update"
    /\ idx' = frames[Len(frames)].idx
    /\ updating' = frames[Len(frames)].updating
    /\ frames' = SubSeq(frames, 1, Len(frames) - 1)
    /\ ret' = None
    /\ UNCHANGED <<observers, temperature, delivered>>

\* An update calls set_temperature on the subject that is notifying it (the update of a
\* client's Observer subclass): the running loop of notify stays suspended in
\* Observer.py:66 and the call starts a loop of its own over the same list.
Update_set_temperature ==
    \E t \in Temperatures :
        /\ pc = "update"
        /\ Len(cycles) < MaxCalls
        /\ WeatherData_set_temperature(t)
        /\ frames' = Append(frames, [idx |-> idx, updating |-> updating, cycle |-> cycle])
        /\ cycle' = Len(cycles) + 1
        /\ cycles' = Append(cycles, [value |-> t,
                                     registered |-> RegisteredNow])
        /\ UNCHANGED <<delivered, received, changed, stayed, atStart, selfDetached, foreign,
                       firstOrder, regOrder, call, printed>>
        /\ UNCHANGED <<state, trace, notified, balance, history, saved, undone, negative,
                       threads, fork, otherPrograms>>

Notify_return_to_update ==
    /\ pc = "notify"
    /\ frames # <<>>
    /\ WeatherData_notify_returns_to_update
    /\ cycle' = frames[Len(frames)].cycle
    /\ UNCHANGED <<cycles, received, changed, stayed, atStart, selfDetached, foreign,
                   firstOrder, regOrder, call, printed>>
    /\ UNCHANGED <<state, trace, notified, balance, history, saved, undone, negative,
                   threads, fork, otherPrograms>>

\* The client's attach and detach calls, made between its set_temperature calls.
Client_attach ==
    /\ pc = "idle"
    /\ Caller_attach

Client_detach ==
    /\ pc = "idle"
    /\ Caller_detach

\* The calls of the client with the observers of Displays: it attaches and detaches
\* between its set_temperature calls, and an update may detach an observer.
Display_attach ==
    \E observer \in Displays :
        /\ pc = "idle"
        /\ Call_attach(observer)

Display_detach == \E observer \in Displays : Call_detach(observer)

----------------------------------------------------------------------------
(***************************************************************************)
(* Singleton.py                                                            *)
(***************************************************************************)

\* Python objects are numbered in the order of their creation; NoObject is None.
NoObject == 0

\* An attribute the object does not have.
NoAttribute == "<no attribute>"

\* The files the client may name in log_file, and the messages it logs.
LogFileNames == {"application.log", "audit.log"}
Messages == {"first", "second"}

\* A Logger object as object.__new__ makes it (Singleton.py:34): without attributes.
BareLogger == [initialized |-> FALSE, log_file |-> NoAttribute]

\* Logger.__new__ as it would be without the test of _instance.
Logger_new_always(instance, heap) ==
    [instance |-> Len(heap) + 1, heap |-> Append(heap, BareLogger)]

\* Logger.__new__ (Singleton.py:32-35): the class attribute and the heap after it; the
\* instance is what it returns. None is false and a Logger object is true.
Logger_new(instance, heap) ==
    IF instance = NoObject
    THEN [instance |-> Len(heap) + 1, heap |-> Append(heap, BareLogger)]
    ELSE [instance |-> instance, heap |-> heap]

\* Logger.__init__ as it would be without the hasattr test.
Logger_init_again(heap, self) ==
    [heap EXCEPT ![self] = [initialized |-> TRUE, log_file |-> "application.log"]]

\* Logger.__init__ (Singleton.py:37-40): the heap after it.
Logger_init(heap, self) ==
    IF ~heap[self].initialized
    THEN [heap EXCEPT ![self] = [initialized |-> TRUE, log_file |-> "application.log"]]
    ELSE heap

\* Logger.log (Singleton.py:42-44): the message is appended to the file log_file names.
Logger_log(self, message) ==
    /\ log_files' = [log_files EXCEPT ![loggers[self].log_file] = Append(@, message)]
    /\ ret' = None
    /\ UNCHANGED <<Logger_instance, loggers>>

\* The class body (Singleton.py:29-30), and no call made yet.
LoggerInit ==
    /\ Logger_instance = NoObject
    /\ loggers = <<>>
    /\ logger_refs = <<>>
    /\ log_files = [f \in LogFileNames |-> <<>>]

NotLogger ==
    UNCHANGED <<orderVars, mementoVars, observerVars, flyweightVars, proxyVars, brokerVars,
                iteratorVars, printed>>

\* "Logger()" (as in Singleton.py:48-49): type.__call__ calls __new__ and then __init__
\* on what __new__ returned.
Client_Logger ==
    /\ Len(logger_refs) < MaxLoggers
    /\ LET made == Logger_new(Logger_instance, loggers)
       IN  /\ Logger_instance' = made.instance
           /\ loggers' = Logger_init(made.heap, made.instance)
           /\ logger_refs' = Append(logger_refs, made.instance)
           /\ ret' = made.instance
    /\ call' = [op |-> "Logger", arg |-> 0]
    /\ UNCHANGED log_files
    /\ NotLogger

\* "logger.log_file = name": the attribute is public, the client may point the logger
\* at another file.
Client_set_log_file ==
    \E r \in DOMAIN logger_refs, name \in LogFileNames :
        /\ loggers' = [loggers EXCEPT ![logger_refs[r]].log_file = name]
        /\ call' = [op |-> "log_file", arg |-> r]
        /\ ret' = None
        /\ UNCHANGED <<Logger_instance, logger_refs, log_files>>
        /\ NotLogger

\* "logger.log(message)" (as in Singleton.py:51-52), through any of the references.
Client_log ==
    \E r \in DOMAIN logger_refs, message \in Messages :
        /\ Len(log_files[loggers[logger_refs[r]].log_file]) < MaxLines
        /\ Logger_log(logger_refs[r], message)
        /\ call' = [op |-> "log", arg |-> r]
        /\ UNCHANGED logger_refs
        /\ NotLogger

----------------------------------------------------------------------------
(***************************************************************************)
(* Flyweight.py                                                            *)
(***************************************************************************)

\* The trade types and symbols the client asks for (as in Flyweight.py:75-81).
TradeTypes == {"buy", "sell"}
Symbols == {"AAPL", "TSLA"}

\* TradeTransaction.__init__ (Flyweight.py:39-41).
TradeTransaction(trade_type, symbol) == [trade_type |-> trade_type, symbol |-> symbol]

\* A dict with one more item, or with the item of that key replaced.
SetItem(dict, key, value) ==
    [k \in DOMAIN dict \cup {key} |-> IF k = key THEN value ELSE dict[k]]

\* get_transaction as it would be if it made a new object for every call.
TransactionFactory_get_transaction_unshared(dict, heap, trade_type, symbol) ==
    LET key == <<trade_type, symbol>>
    IN  [dict |-> SetItem(dict, key, Len(heap) + 1),
         heap |-> Append(heap, TradeTransaction(trade_type, symbol)),
         object |-> Len(heap) + 1]

\* TransactionFactory.get_transaction (Flyweight.py:54-59): the dict and the heap after
\* the call, and the object it returns.
TransactionFactory_get_transaction(dict, heap, trade_type, symbol) ==
    LET key == <<trade_type, symbol>>
    IN  IF key \notin DOMAIN dict
        THEN [dict |-> SetItem(dict, key, Len(heap) + 1),
              heap |-> Append(heap, TradeTransaction(trade_type, symbol)),
              object |-> Len(heap) + 1]
        ELSE [dict |-> dict, heap |-> heap, object |-> dict[key]]

\* The dicts the client passes as unique_data (Flyweight.py:70-72).
UniqueData ==
    {[trade_id |-> "T001", timestamp |-> "2024-07-29 10:00:00"],
     [trade_id |-> "T002", timestamp |-> "2024-07-29 10:05:00"],
     [trade_id |-> "T003", timestamp |-> "2024-07-29 10:10:00"]}

\* TradeTransaction.execute (Flyweight.py:43-45): the two lines it prints, each as the
\* parts of its f-string; it returns None.
TradeTransaction_execute(self, unique_data) ==
    /\ printed' = << <<"Executing", flyweights[self].trade_type, "trade for",
                       flyweights[self].symbol>>,
                     <<"Unique Data:", unique_data>> >>
    /\ ret' = None

\* The class body (Flyweight.py:51-52): an empty dict.
FlyweightInit ==
    /\ TransactionFactory_transactions = <<>>
    /\ flyweights = <<>>
    /\ got = <<>>

NotFlyweight ==
    UNCHANGED <<orderVars, mementoVars, observerVars, loggerVars, proxyVars, brokerVars,
                iteratorVars>>

\* "factory.get_transaction(trade_type, symbol)" (as in Flyweight.py:75-81).
Client_get_transaction ==
    \E trade_type \in TradeTypes, symbol \in Symbols :
        /\ Len(got) < MaxGets
        /\ LET out == TransactionFactory_get_transaction(
                          TransactionFactory_transactions, flyweights, trade_type, symbol)
           IN  /\ TransactionFactory_transactions' = out.dict
               /\ flyweights' = out.heap
               /\ got' = Append(got, [key |-> <<trade_type, symbol>>,
                                      object |-> out.object])
               /\ ret' = out.object
        /\ call' = [op |-> "get_transaction", arg |-> 0]
        /\ printed' = <<>>
        /\ NotFlyweight

\* "transaction.execute(unique_data)" (as in Flyweight.py:76-82), on any object got.
Client_execute ==
    \E i \in DOMAIN got, unique_data \in UniqueData :
        /\ TradeTransaction_execute(got[i].object, unique_data)
        /\ call' = [op |-> "execute", arg |-> i]
        /\ UNCHANGED flyweightVars
        /\ NotFlyweight

----------------------------------------------------------------------------
(***************************************************************************)
(* Proxy.py                                                                *)
(***************************************************************************)

\* The symbols the client asks data for (as in Proxy.py:73-81, and one more).
MarketSymbols == {"AAPL", "TSLA", "MSFT"}

\* RealMarketData.get_data (Proxy.py:41-44): it makes a new dict at every call; the
\* dict of the n-th call is the data object n.
RealMarketData_get_data(log, symbol) ==
    [log |-> Append(log, symbol), data |-> Len(log) + 1]

\* MarketDataProxy.get_data as it would be if it did not keep what it fetched.
MarketDataProxy_get_data_forgets(dict, log, symbol) ==
    IF symbol \in DOMAIN dict
    THEN [dict |-> dict, log |-> log, data |-> dict[symbol],
          printed |-> <<"Returning cached data for", symbol>>]
    ELSE LET real == RealMarketData_get_data(log, symbol)
         IN  [dict |-> dict, log |-> real.log, data |-> real.data,
              printed |-> <<"Cache miss for", symbol, "Fetching market data for", symbol>>]

\* MarketDataProxy.get_data (Proxy.py:55-63): the cache and the real subject's log after
\* the call, the data object it returns, and what is printed.
MarketDataProxy_get_data(dict, log, symbol) ==
    IF symbol \in DOMAIN dict
    THEN [dict |-> dict, log |-> log, data |-> dict[symbol],
          printed |-> <<"Returning cached data for", symbol>>]
    ELSE LET real == RealMarketData_get_data(log, symbol)
         IN  [dict |-> SetItem(dict, symbol, real.data), log |-> real.log,
              data |-> real.data,
              printed |-> <<"Cache miss for", symbol, "Fetching market data for", symbol>>]

\* MarketDataProxy.__init__ (Proxy.py:51-53).
ProxyInit ==
    /\ cache = <<>>
    /\ fetches = <<>>
    /\ answers = <<>>

NotProxy ==
    UNCHANGED <<orderVars, mementoVars, observerVars, loggerVars, flyweightVars, brokerVars,
                iteratorVars>>

\* "market_data_proxy.get_data(symbol)" (as in Proxy.py:73-81).
Client_get_data ==
    \E symbol \in MarketSymbols :
        /\ Len(answers) < MaxRequests
        /\ LET out == MarketDataProxy_get_data(cache, fetches, symbol)
           IN  /\ cache' = out.dict
               /\ fetches' = out.log
               /\ answers' = Append(answers, [symbol |-> symbol, data |-> out.data])
               /\ ret' = out.data
               /\ printed' = out.printed
        /\ call' = [op |-> "get_data", arg |-> 0]
        /\ NotProxy

----------------------------------------------------------------------------
(***************************************************************************)
(* Command.py                                                              *)
(***************************************************************************)

\* The command objects of the client (Command.py:92-93): a BuyOrderCommand and a
\* SellOrderCommand on one Trader. The client may add an object more than once.
BuyOrderCommand(amount) == [class |-> "BuyOrderCommand", amount |-> amount]
SellOrderCommand(amount) == [class |-> "SellOrderCommand", amount |-> amount]
Commands == {BuyOrderCommand(100), SellOrderCommand(50)}

\* BuyOrderCommand.execute and SellOrderCommand.execute (Command.py:46-47, 54-55) with
\* Trader.buy and Trader.sell (Command.py:62-66): the line printed.
Command_execute(command) ==
    IF command.class = "BuyOrderCommand"
    THEN [line |-> "Buying", amount |-> command.amount]
    ELSE [line |-> "Selling", amount |-> command.amount]

\* Broker.add_command (Command.py:76-77).
Broker_add_command(command) ==
    /\ commands' = Append(commands, command)
    /\ ret' = None
    /\ printed' = <<>>

\* execute_commands as it would be without the assignment of the empty list.
Broker_execute_commands_keeps ==
    /\ printed' = [i \in DOMAIN commands |-> Command_execute(commands[i])]
    /\ executed' = executed \o [i \in DOMAIN commands |->
                                   [command |-> commands[i], run |-> runs + 1]]
    /\ commands' = commands
    /\ ret' = None

\* Broker.execute_commands (Command.py:79-82): the loop over the list, in the list's
\* order, and then the new empty list. The commands of this file only print: none
\* calls the broker or raises.
Broker_execute_commands ==
    /\ printed' = [i \in DOMAIN commands |-> Command_execute(commands[i])]
    /\ executed' = executed \o [i \in DOMAIN commands |->
                                   [command |-> commands[i], run |-> runs + 1]]
    /\ commands' = <<>>
    /\ ret' = None

\* Broker.__init__ (Command.py:73-74).
BrokerInit ==
    /\ commands = <<>>
    /\ added = <<>>
    /\ executed = <<>>
    /\ runs = 0

NotBroker ==
    UNCHANGED <<orderVars, mementoVars, observerVars, loggerVars, flyweightVars, proxyVars,
                iteratorVars>>

\* "broker.add_command(command)" (as in Command.py:97-98).
Client_add_command ==
    \E command \in Commands :
        /\ Len(added) < MaxCommands
        /\ Broker_add_command(command)
        /\ added' = Append(added, command)
        /\ call' = [op |-> "add_command", arg |-> 0]
        /\ UNCHANGED <<executed, runs>>
        /\ NotBroker

\* "broker.execute_commands()" (as in Command.py:101).
Client_execute_commands ==
    /\ runs < MaxRuns
    /\ Broker_execute_commands
    /\ runs' = runs + 1
    /\ call' = [op |-> "execute_commands", arg |-> 0]
    /\ UNCHANGED added
    /\ NotBroker

----------------------------------------------------------------------------
(***************************************************************************)
(* Iterator.py                                                             *)
(***************************************************************************)

\* The transactions the client adds (Iterator.py:92-94).
Transactions ==
    {[id |-> 1, amount |-> 100], [id |-> 2, amount |-> 200], [id |-> 3, amount |-> 300]}

\* The exception next raises (Iterator.py:55), as what the call gives instead of a
\* transaction.
StopIteration == [raised |-> "StopIteration"]

\* TransactionIterator.has_next (Iterator.py:57-58): what it returns.
TransactionIterator_has_next == index < Len(transactions)

\* next as it would be if it moved the position before it raised.
TransactionIterator_next_overruns ==
    IF TransactionIterator_has_next
    THEN /\ ret' = transactions[index + 1]
         /\ index' = index + 1
    ELSE /\ ret' = StopIteration
         /\ index' = index + 1

\* TransactionIterator.next (Iterator.py:49-55). Python counts the list from 0, the
\* sequence is counted from 1.
TransactionIterator_next ==
    IF TransactionIterator_has_next
    THEN /\ ret' = transactions[index + 1]
         /\ index' = index + 1
    ELSE /\ ret' = StopIteration
         /\ UNCHANGED index

\* TransactionCollection.add_transaction (Iterator.py:79-80).
TransactionCollection_add_transaction(transaction) ==
    /\ transactions' = Append(transactions, transaction)
    /\ ret' = None

\* TransactionCollection.create_iterator with TransactionIterator.__init__
\* (Iterator.py:82-83, 45-47): the iterator holds the collection's list itself, and is
\* what the call returns.
TransactionCollection_create_iterator ==
    /\ index' = 0
    /\ has_iterator' = TRUE
    /\ ret' = [class |-> "TransactionIterator", index |-> 0]
    /\ UNCHANGED transactions

\* TransactionCollection.__init__ (Iterator.py:76-77), and no iterator yet.
IteratorInit ==
    /\ transactions = <<>>
    /\ has_iterator = FALSE
    /\ index = 0
    /\ returned = <<>>
    /\ modified = FALSE

NotIterator ==
    UNCHANGED <<orderVars, mementoVars, observerVars, loggerVars, flyweightVars, proxyVars,
                brokerVars, printed>>

\* "transactions.add_transaction(...)" (as in Iterator.py:92-94), before or during a
\* traversal.
Client_add_transaction ==
    \E transaction \in Transactions :
        /\ Len(transactions) < MaxTransactions
        /\ TransactionCollection_add_transaction(transaction)
        /\ modified' = has_iterator
        /\ call' = [op |-> "add_transaction", arg |-> 0]
        /\ UNCHANGED <<has_iterator, index, returned>>
        /\ NotIterator

\* "iterator = transactions.create_iterator()" (as in Iterator.py:97).
Client_create_iterator ==
    /\ TransactionCollection_create_iterator
    /\ returned' = <<>>
    /\ modified' = FALSE
    /\ call' = [op |-> "create_iterator", arg |-> 0]
    /\ NotIterator

\* "iterator.has_next()" (as in Iterator.py:100).
Client_has_next ==
    /\ has_iterator
    /\ ret' = TransactionIterator_has_next
    /\ call' = [op |-> "has_next", arg |-> 0]
    /\ UNCHANGED iteratorVars
    /\ NotIterator

\* "iterator.next()" (as in Iterator.py:101), whether or not has_next was asked.
Client_next ==
    /\ has_iterator
    /\ TransactionIterator_next
    /\ returned' = IF index' # index /\ index < Len(transactions)
                   THEN Append(returned, transactions[index + 1]) ELSE returned
    /\ call' = [op |-> "next", arg |-> 0]
    /\ UNCHANGED <<transactions, has_iterator, modified>>
    /\ NotIterator

Init ==
    /\ OrderInit
    /\ MementoInit
    /\ ObserverInit
    /\ LoggerInit
    /\ FlyweightInit
    /\ ProxyInit
    /\ BrokerInit
    /\ IteratorInit
    /\ call = [op |-> "init", arg |-> 0]
    /\ ret = None
    /\ printed = <<>>

NextOrder ==
    \/ Client_process
    \/ Client_cancel

SpecOrder == Init /\ [][NextOrder]_vars

NextMemento ==
    \/ Client_deposit
    \/ Client_withdraw
    \/ Client_get_balance
    \/ Client_save
    \/ Client_undo

SpecMemento == Init /\ [][NextMemento]_vars

\* Either script runs, State.py or Memento.py: the calls on the Order while no call was
\* made on the Account and its Caretaker, and the calls on these while no call was made
\* on the Order.
OrderScript == call.op = "init"
MementoScript == trace = <<>>

Script_process == OrderScript /\ Client_process
Script_cancel == OrderScript /\ Client_cancel
Script_deposit == MementoScript /\ Client_deposit
Script_withdraw == MementoScript /\ Client_withdraw
Script_get_balance == MementoScript /\ Client_get_balance
Script_save == MementoScript /\ Client_save
Script_undo == MementoScript /\ Client_undo

NextScripts ==
    \/ Script_process
    \/ Script_cancel
    \/ Script_deposit
    \/ Script_withdraw
    \/ Script_get_balance
    \/ Script_save
    \/ Script_undo

SpecScripts == Init /\ [][NextScripts]_vars

NextThreads ==
    \/ Main_deposit
    \/ Main_withdraw
    \/ Main_save
    \/ Main_undo
    \/ Fork
    \/ Run_deposit_load
    \/ Run_deposit_store
    \/ Run_withdraw_test
    \/ Run_withdraw_load
    \/ Run_withdraw_store
    \/ Run_save_snapshot
    \/ Run_save_append
    \/ Run_undo_test
    \/ Run_undo_pop
    \/ Run_undo_restore

SpecThreads == Init /\ [][NextThreads]_vars

NextLogger ==
    \/ Client_Logger
    \/ Client_set_log_file
    \/ Client_log

SpecLogger == Init /\ [][NextLogger]_vars

NextFlyweight ==
    \/ Client_get_transaction
    \/ Client_execute

SpecFlyweight == Init /\ [][NextFlyweight]_vars

NextProxy ==
    \/ Client_get_data

SpecProxy == Init /\ [][NextProxy]_vars

NextBroker ==
    \/ Client_add_command
    \/ Client_execute_commands

SpecBroker == Init /\ [][NextBroker]_vars

NextIterator ==
    \/ Client_add_transaction
    \/ Client_create_iterator
    \/ Client_has_next
    \/ Client_next

SpecIterator == Init /\ [][NextIterator]_vars

NextObserver ==
    \/ Caller_attach
    \/ Caller_detach
    \/ Client_set_temperature
    \/ Notify_step
    \/ Update_return
    \/ Update_raise

SpecObserver == Init /\ [][NextObserver]_vars

\* Observer.py with observers whose update calls set_temperature on the subject; the
\* client attaches and detaches between its own calls, and every update returns.
NextReentrant ==
    \/ Client_attach
    \/ Client_detach
    \/ Client_set_temperature
    \/ Update_set_temperature
    \/ Notify_step
    \/ Notify_return_to_update
    \/ Update_return

SpecReentrant == Init /\ [][NextReentrant]_vars

\* Observer.py with the observers of Displays: every update returns, and calls detach on
\* the subject at most.
NextDisplays ==
    \/ Display_attach
    \/ Display_detach
    \/ Client_set_temperature
    \/ Notify_step
    \/ Update_return

SpecDisplays == Init /\ [][NextDisplays]_vars

----------------------------------------------------------------------------
(***************************************************************************)
(* Claims about State.py, checked under SpecOrder.                         *)
(***************************************************************************)

\* The transition table the claims state: New+fill -> Filled, New+cancel -> Cancelled,
\* Filled+cancel -> Cancelled, every other pair leaves the tag as it is.
TableNext(tag, ev) ==
    CASE tag = "New" /\ ev = "fill" -> "Filled"
      [] tag = "New" /\ ev = "cancel" -> "Cancelled"
      [] tag = "Filled" /\ ev = "cancel" -> "Cancelled"
      [] OTHER -> tag

RECURSIVE FoldTable(_, _)
FoldTable(tag, evs) ==
    IF evs = <<>> THEN tag
    ELSE FoldTable(TableNext(tag, Head(evs)), Tail(evs))

\* C1: after any finite sequence of process()/cancel() calls on a fresh Order, the
\* Order's tag equals the fold of the transition table over that sequence from New.
C1_TagIsFoldOfTable == state = FoldTable("New", trace)

\* C1 witness: the client scenario of State.py:90-98 has run (fill, cancel, fill, cancel)
\* and more events followed.
C1_Witness ==
    /\ Len(trace) >= 5
    /\ SubSeq(trace, 1, 4) = <<"fill", "cancel", "fill", "cancel">>
    /\ state = "Cancelled"

\* The pairs the table rejects.
RejectedPair(tag, ev) ==
    \/ tag = "Filled" /\ ev = "fill"
    \/ tag = "Cancelled" /\ ev = "fill"
    \/ tag = "Cancelled" /\ ev = "cancel"

\* C2: a call on a rejected (tag, event) pair leaves the Order's tag (its only field)
\* unchanged, and a Cancelled Order stays Cancelled under every further call.
C2_RejectedLeavesOrderUnchanged ==
    [][ /\ \A ev \in Events :
             (trace' = Append(trace, ev) /\ RejectedPair(state, ev)) => state' = state
        /\ (state = "Cancelled" => state' = "Cancelled") ]_vars

\* C2 witness: a Cancelled Order has been sent both events again and is still Cancelled.
C2_Witness ==
    /\ Len(trace) >= 4
    /\ FoldTable("New", SubSeq(trace, 1, Len(trace) - 2)) = "Cancelled"
    /\ trace[Len(trace) - 1] = "fill"
    /\ trace[Len(trace)] = "cancel"
    /\ state = "Cancelled"

\* The signal the claim expects process() to return on a rejected pair.
IllegalTransition(reason) ==
    IF reason = "TerminalState" THEN "IllegalTransition{TerminalState}"
    ELSE "IllegalTransition{UnknownEvent}"

\* C3 as stated: process() on a Cancelled Order returns IllegalTransition{TerminalState}
\* and process() on a Filled Order returns IllegalTransition{UnknownEvent}.
C3_Original ==
    [][ /\ (trace' = Append(trace, "fill") /\ state = "Cancelled")
             => ret' = IllegalTransition("TerminalState")
        /\ (trace' = Append(trace, "fill") /\ state = "Filled")
             => ret' = IllegalTransition("UnknownEvent") ]_vars

\* C4: in every reachable state the Order's current state is one of New, Filled, Cancelled.
C4_TagIsDeclared == state \in Tags

\* C4 witness: every set_state call site has run at least once on the way to this state
\* (New -> Filled -> Cancelled) and rejected calls followed.
C4_Witness ==
    /\ Len(trace) >= 4
    /\ trace[1] = "fill"
    /\ trace[2] = "cancel"
    /\ state = "Cancelled"
    /\ printed = <<"Order already cancelled.">>

----------------------------------------------------------------------------
(***************************************************************************)
(* Claims about Memento.py, checked under SpecMemento.                     *)
(***************************************************************************)

\* C5: in every cycle save(); deposits and withdrawals; undo(), repeated or nested, the
\* balance right after undo() is the balance that was current at the matching save().
C5_UndoRestoresMatchingSave ==
    (call.op = "undo" /\ undone # <<>>) => balance = undone[1].bal

\* C5 witness: a cycle has just ended: undo() has undone the only save held, made at
\* balance 1, after deposits or withdrawals had moved the balance away from 1.
C5_Witness ==
    /\ call.op = "undo"
    /\ undone # <<>>
    /\ undone[1].moved
    /\ undone[1].bal = 1
    /\ saved = <<>>
    /\ balance = 1

\* The snapshots held are, in order, the balances current at the saves not yet undone.
SnapshotsAreSaves ==
    /\ Len(history) = Len(saved)
    /\ \A i \in 1 .. Len(history) : get_saved_state(history[i]) = saved[i].bal

\* An undo() on a non-empty history removes the most recent snapshot and no other.
UndoPopsOnlyLast ==
    (call'.op = "undo" /\ history # <<>>) =>
        /\ Len(history') = Len(history) - 1
        /\ \A i \in 1 .. Len(history') : history'[i] = history[i]

\* An undo() on a non-empty history sets the balance to that of the most recent save not
\* yet undone, which is the snapshot it removes.
UndoRestoresLast ==
    (call'.op = "undo" /\ history # <<>>) =>
        /\ balance' = saved[Len(saved)].bal
        /\ balance' = get_saved_state(history[Len(history)])
        /\ saved' = SubSeq(saved, 1, Len(saved) - 1)

\* C6: the history is a strict LIFO stack: it holds the balances b1..bk of the k saves not
\* yet undone, oldest first, whatever deposits and withdrawals happen in between; each
\* undo() restores the balance of the most recent of them, removes exactly that snapshot
\* and leaves the earlier ones in place, so k successive undo() calls restore bk, ..., b1
\* in that order.
C6_HistoryIsLifo ==
    [](SnapshotsAreSaves) /\ [][UndoPopsOnlyLast /\ UndoRestoresLast]_vars

\* C6 witness: of two saves, at balances 1 and then 2, the first undo() has just undone
\* the later one, after the balance had moved on: the balance is 2 again and the snapshot
\* of balance 1 is still held for the next undo().
C6_Witness ==
    /\ call.op = "undo"
    /\ undone # <<>>
    /\ undone[1].bal = 2
    /\ undone[1].moved
    /\ Len(history) = 1
    /\ get_saved_state(history[1]) = 1
    /\ saved[1].bal = 1
    /\ balance = 2

\* The result the claim expects undo() to return on an empty history.
EmptyHistory == "EmptyHistory"

\* C7 as stated: undo() on an empty history returns EmptyHistory and leaves the balance
\* and the history unchanged.
C7_Original ==
    [][ (call'.op = "undo" /\ history = <<>>) =>
          /\ ret' = EmptyHistory
          /\ balance' = balance
          /\ history' = <<>> ]_vars

Min(a, b) == IF a <= b THEN a ELSE b

\* C8: a snapshot holds the balance by value: no deposit, withdraw, save or undo changes
\* the value stored in a Memento that stays in the history, also after a restore has
\* copied a snapshot's value back into the Account.
C8_SnapshotsAreByValue ==
    [][ \A i \in 1 .. Min(Len(history), Len(history')) : history'[i] = history[i] ]_vars

\* C8 witness: a Memento saved at balance 1 is still held after deposits or withdrawals
\* have moved the live balance to 2.
C8_Witness ==
    /\ call.op \in {"deposit", "withdraw"}
    /\ Len(history) = 1
    /\ saved[1].moved
    /\ saved[1].bal = 1
    /\ get_saved_state(history[1]) = 1
    /\ balance = 2

----------------------------------------------------------------------------
(***************************************************************************)
(* Claims about Observer.py, checked under SpecObserver.                   *)
(***************************************************************************)

\* How often an observer stands in the registry, and how many updates it has received
\* since the client's last call.
Registrations(o) == Cardinality({i \in DOMAIN observers : observers[i] = o})
Deliveries(o) == Cardinality({i \in DOMAIN delivered : delivered[i].observer = o})

\* The client's set_temperature call has ended, by a return or by an exception.
CycleOver ==
    /\ pc = "idle"
    /\ call.op = "set_temperature"

\* The client's set_temperature call has returned, and the registry did not change
\* while its notify ran.
QuietCycleDone ==
    /\ CycleOver
    /\ ret = None
    /\ ~changed

\* C9 as stated: an observer that has been attached, once or more often, is registered
\* once and receives exactly one update for each set_temperature call that follows: when
\* such a call has returned, every observer that was registered at the call and was not
\* detached since stands once in the registry and has received one update.
C9_Original ==
    (CycleOver /\ ret = None) =>
        \A o \in stayed : Registrations(o) = 1 /\ Deliveries(o) = 1

\* What holds of attach (C9): no observer is ever registered twice, however often it is
\* attached, by the client or from inside an update; and a set_temperature call during
\* which the registry does not change delivers one update, carrying the new temperature,
\* to each registered observer.
AttachIsIdempotent ==
    /\ \A o \in Observers : Registrations(o) <= 1
    /\ QuietCycleDone =>
         \A o \in Observers :
            Registered(o) =>
               /\ Deliveries(o) = 1
               /\ \A i \in DOMAIN delivered : delivered[i].value = temperature

\* The observers of a list of deliveries, in the order of delivery.
ObserversOf(log) == [i \in DOMAIN log |-> log[i].observer]

\* The elements of a list that are registered now, in the list's order.
RECURSIVE OnlyRegistered(_)
OnlyRegistered(list) ==
    IF list = <<>> THEN <<>>
    ELSE IF Registered(Head(list))
         THEN <<Head(list)>> \o OnlyRegistered(Tail(list))
         ELSE OnlyRegistered(Tail(list))

\* C10 as stated: a set_temperature call during which no observer attaches or detaches
\* delivers to every registered observer exactly once, in the order in which the
\* observers were first attached, however the call ends.
C10_Original ==
    (CycleOver /\ ~changed) => ObserversOf(delivered) = OnlyRegistered(firstOrder)

\* The calls among a sequence of process()/cancel() calls that change the tag, the Order
\* starting with the given tag.
RECURSIVE TagChanges(_, _)
TagChanges(tag, evs) ==
    IF evs = <<>> THEN 0
    ELSE (IF TableNext(tag, Head(evs)) # tag THEN 1 ELSE 0)
         + TagChanges(TableNext(tag, Head(evs)), Tail(evs))

\* C15 as stated: over any sequence of process()/cancel() calls, the number of
\* notifications sent equals the number of calls that changed the tag.
C15_Original == notified = TagChanges("New", trace)

\* C17: the expected conditions do not raise. Every process() and cancel() call on the
\* Order, whatever its state, returns None; and an undo() call on an empty history
\* returns None, leaving the account and the history as they were.
C17_ExpectedConditionsReturn ==
    [][/\ trace' # trace => ret' = None
       /\ (trace' = trace /\ call'.op = "undo" /\ history = <<>>) =>
             (ret' = None /\ balance' = balance /\ history' = <<>>)]_vars

\* C17 witness: the Order was cancelled, and a process() and a cancel() call on the
\* cancelled Order have returned None.
C17_Witness ==
    /\ trace = <<"cancel", "fill", "cancel">>
    /\ state = "Cancelled"
    /\ printed = <<"Order already cancelled.">>
    /\ ret = None

\* What a call does to the account and the history when no other call runs meanwhile
\* (Memento.py:42-48, 68-76): the balance and the history after it, what it returns or
\* raises, and what it prints.
SeqCall(b, h, c) ==
    CASE c.op = "deposit" ->
           [balance |-> b + c.arg, history |-> h, ret |-> None, printed |-> <<>>]
      [] c.op = "withdraw" ->
           IF c.arg > b
           THEN [balance |-> b, history |-> h, ret |-> InsufficientFunds, printed |-> <<>>]
           ELSE [balance |-> b - c.arg, history |-> h, ret |-> None, printed |-> <<>>]
      [] c.op = "save" ->
           [balance |-> b, history |-> Append(h, Memento(b)), ret |-> None,
            printed |-> <<>>]
      [] c.op = "undo" ->
           IF h = <<>>
           THEN [balance |-> b, history |-> h, ret |-> None,
                 printed |-> <<"No states to restore">>]
           ELSE [balance |-> get_saved_state(h[Len(h)]),
                 history |-> SubSeq(h, 1, Len(h) - 1), ret |-> None, printed |-> <<>>]

\* The outcome of the two threads' calls is the outcome of the call of the thread first
\* and then the call of the thread second, from the account and history of the fork.
SerialOutcome(first, second) ==
    LET one == SeqCall(fork[1].balance, fork[1].history, threads[first])
        two == SeqCall(one.balance, one.history, threads[second])
    IN  /\ balance = two.balance
        /\ history = two.history
        /\ threads[first].ret = one.ret
        /\ threads[first].printed = one.printed
        /\ threads[second].ret = two.ret
        /\ threads[second].printed = two.printed

\* C18 as stated: when the calls of two concurrent callers have ended, the outcome is
\* the outcome of the two calls made one after the other, in one order or the other.
C18_Original ==
    (Forked /\ \A t \in Threads : threads[t].pc = "done") =>
        \E first, second \in Threads : first # second /\ SerialOutcome(first, second)

\* C19: save() and undo() start no notification; save() changes the history only, and
\* undo() changes the history and the balance only.
C19_SaveAndUndoNotifyNobody ==
    [][(call'.op \in {"save", "undo"}) =>
          /\ notified' = notified
          /\ delivered' = delivered
          /\ pc' = "idle"
          /\ <<observers, temperature, state>>' = <<observers, temperature, state>>
          /\ call'.op = "save" => balance' = balance]_vars

\* C19 witness: an undo() has restored the balance 1 over the balance 2, a snapshot is
\* left in the history, and no observer was told anything.
C19_Witness ==
    /\ call.op = "undo"
    /\ undone # <<>>
    /\ undone[1].bal = 1
    /\ undone[1].moved
    /\ balance = 1
    /\ history # <<>>
    /\ delivered = <<>>
    /\ notified = 0
    /\ pc = "idle"

\* C20: the history changes through save() and through undo() on a history that is not
\* empty, and through nothing else: save() appends one snapshot of the current balance
\* and leaves the balance, such an undo() removes the latest snapshot; deposit,
\* withdraw (accepted or refused), get_balance and undo() on an empty history leave the
\* history as it was.
C20_HistoryChangesBySaveAndUndo ==
    [][CASE call'.op = "save" ->
              /\ history' = Append(history, Memento(balance))
              /\ balance' = balance
         [] call'.op = "undo" /\ history # <<>> ->
              history' = SubSeq(history, 1, Len(history) - 1)
         [] OTHER -> history' = history]_vars

\* C20 witness: with two different snapshots in the history, a withdrawal was refused.
C20_Witness ==
    /\ call.op = "withdraw"
    /\ ret = InsufficientFunds
    /\ Len(history) = 2
    /\ history[1] # history[2]

\* C11 as stated: a set_temperature call delivers to the observers that were registered
\* when it was made: an observer attached from inside an update during the call receives
\* no update of that call, and no observer receives more than one.
C11_Original ==
    call.op = "set_temperature" =>
        /\ \A i \in DOMAIN delivered : delivered[i].observer \in atStart
        /\ \A o \in Observers : Deliveries(o) <= 1

\* C12 as stated: when observers have detached themselves from inside their own update
\* and nothing else has changed the registry, and the set_temperature call has returned,
\* every other observer that was registered at the call has received exactly one update.
C12_Original ==
    (CycleOver /\ ret = None /\ selfDetached # {} /\ ~foreign) =>
        \A o \in atStart \ selfDetached : Deliveries(o) = 1

\* C13 as stated: when the update of an observer has raised during a set_temperature
\* call (the registry not changing meanwhile), the observers registered after it have
\* still received the update: every registered observer has received it once.
C13_Original ==
    (CycleOver /\ ret = UpdateError /\ ~changed) =>
        \A o \in Observers : Registered(o) => Deliveries(o) = 1

\* C14 as stated: whatever the observers' updates did, the set_temperature call returns
\* normally to its caller, with the new temperature stored.
C14_Original ==
    CycleOver => (ret = None /\ temperature = call.arg)

\* C16: the new temperature is stored before any observer is told: from the
\* set_temperature call on, the stored temperature is the one the client passed, and
\* every update delivered by that call carries the stored temperature.
C16_StoredBeforeDelivered ==
    call.op = "set_temperature" =>
        /\ temperature = call.arg
        /\ \A i \in DOMAIN delivered : delivered[i].value = temperature

\* C16 witness: the temperature was 1 and the client has set it to 2; the second
\* observer is in its update, and both updates carried 2.
C16_Witness ==
    /\ pc = "update"
    /\ call = [op |-> "set_temperature", arg |-> 2]
    /\ Len(delivered) = 2
    /\ delivered[2].value = 2
    /\ temperature = 2

\* C21: every Logger() call returns the same object: a call creates no second Logger
\* object, what it returns is what every earlier call returned, and a call that finds
\* the instance leaves its attributes, log_file among them, as they were.
C21_OneLoggerNeverReinitialised ==
    [][(Len(logger_refs') > Len(logger_refs)) =>
          /\ Len(loggers') = 1
          /\ \A r \in DOMAIN logger_refs' : logger_refs'[r] = Logger_instance'
          /\ Logger_instance # NoObject =>
                /\ Logger_instance' = Logger_instance
                /\ loggers' = loggers]_vars

\* C21 witness: the client has pointed the logger at audit.log and then called Logger()
\* for the third time; the one Logger object still names audit.log.
C21_Witness ==
    /\ call.op = "Logger"
    /\ Len(logger_refs) = 3
    /\ logger_refs = <<1, 1, 1>>
    /\ Len(loggers) = 1
    /\ loggers[1].log_file = "audit.log"

\* C22: two get_transaction calls return the same object exactly when their keys are
\* equal; the object of a key is the one the dict holds for it, and an item of the dict
\* is never removed or replaced.
C22_SameObjectIffSameKey ==
    [][/\ \A i, j \in DOMAIN got' :
             (got'[i].object = got'[j].object) <=> (got'[i].key = got'[j].key)
       /\ \A i \in DOMAIN got' :
             /\ got'[i].key \in DOMAIN TransactionFactory_transactions'
             /\ TransactionFactory_transactions'[got'[i].key] = got'[i].object
       /\ \A k \in DOMAIN TransactionFactory_transactions :
             /\ k \in DOMAIN TransactionFactory_transactions'
             /\ TransactionFactory_transactions'[k] = TransactionFactory_transactions[k]]_vars

\* C22 witness: the client scenario of Flyweight.py:75-81 and one more call: buy AAPL
\* twice gave one object, sell TSLA another, and buy AAPL again the first.
C22_Witness ==
    /\ Len(got) = 4
    /\ got[1].key = <<"buy", "AAPL">>
    /\ got[2].key = <<"buy", "AAPL">>
    /\ got[3].key = <<"sell", "TSLA">>
    /\ got[4].key = <<"buy", "AAPL">>
    /\ got[1].object = got[2].object
    /\ got[3].object # got[1].object
    /\ got[4].object = got[1].object
    /\ Len(flyweights) = 2

\* The requests for a symbol among the answers, and the fetches of it.
RequestsOf(symbol, log) == {i \in DOMAIN log : log[i].symbol = symbol}
FetchesOf(symbol, log) == {i \in DOMAIN log : log[i] = symbol}

\* C23: a get_data call on the proxy for a symbol not asked for before fetches it from
\* the real subject, once; a call for a symbol asked for before fetches nothing and
\* returns the data object the first call for that symbol returned. So the real subject
\* is asked at most once for each symbol.
C23_FetchedOncePerSymbol ==
    [][(Len(answers') > Len(answers)) =>
          LET last == answers'[Len(answers')]
              before == RequestsOf(last.symbol, answers)
          IN  /\ before = {} =>
                    /\ fetches' = Append(fetches, last.symbol)
                    /\ last.data = Len(fetches')
              /\ before # {} =>
                    /\ fetches' = fetches
                    /\ \A i \in before : answers[i].data = last.data
              /\ \A symbol \in MarketSymbols :
                    Cardinality(FetchesOf(symbol, fetches')) <= 1]_vars

\* C23 witness: the client scenario of Proxy.py:73-81 and one more request: AAPL was
\* fetched, answered from the cache, TSLA was fetched, and AAPL was answered from the
\* cache again with the data of the first fetch.
C23_Witness ==
    /\ Len(answers) = 4
    /\ answers[1] = [symbol |-> "AAPL", data |-> 1]
    /\ answers[2] = [symbol |-> "AAPL", data |-> 1]
    /\ answers[3] = [symbol |-> "TSLA", data |-> 2]
    /\ answers[4] = [symbol |-> "AAPL", data |-> 1]
    /\ fetches = <<"AAPL", "TSLA">>
    /\ printed = <<"Returning cached data for", "AAPL">>

\* The commands of a list of executions, in the order of execution.
CommandsOf(log) == [i \in DOMAIN log |-> log[i].command]

\* C24: an execute_commands call executes the commands of the queue, each once, in the
\* order add_command received them, and leaves the queue empty: the commands executed
\* so far, in order, followed by the queue, are the commands added so far, in order; so
\* every command added is executed by one call, the first after its add_command, and a
\* call that follows another at once executes nothing.
C24_EachQueuedCommandOnceInOrder ==
    [][/\ CommandsOf(executed') \o commands' = added'
       /\ (runs' # runs) =>
             /\ commands' = <<>>
             /\ CommandsOf(executed') = added
             /\ \A i \in DOMAIN executed' :
                   i > Len(executed) => executed'[i].run = runs'
             /\ Len(printed') = Len(commands)
             /\ (call.op = "execute_commands") => executed' = executed]_vars

\* C24 witness: buy and sell were added and executed by the first call; the second
\* call, made at once, executed nothing; sell was added again and executed by the
\* third call.
C24_Witness ==
    /\ runs = 3
    /\ added = <<BuyOrderCommand(100), SellOrderCommand(50), SellOrderCommand(50)>>
    /\ executed = <<[command |-> BuyOrderCommand(100), run |-> 1],
                    [command |-> SellOrderCommand(50), run |-> 1],
                    [command |-> SellOrderCommand(50), run |-> 3]>>
    /\ commands = <<>>
    /\ printed = <<[line |-> "Selling", amount |-> 50]>>

\* C25: on an iterator whose collection of n transactions was not added to since the
\* iterator was created, the next() calls have returned the first transactions of the
\* collection, in insertion order, each position once; has_next() returns true exactly
\* while fewer than n were returned; next() returns the transaction after those returned
\* and, when all n were returned, raises StopIteration and leaves the position.
C25_IteratorTraversesInOrder ==
    [][(has_iterator' /\ ~modified') =>
          LET n == Len(transactions')
          IN  /\ Len(returned') <= n
              /\ returned' = SubSeq(transactions', 1, Len(returned'))
              /\ index' = Len(returned')
              /\ (call'.op = "has_next") => (ret' = (Len(returned') < n))
              /\ (call'.op = "next" /\ has_iterator /\ Len(returned) < n) =>
                    /\ ret' = transactions[Len(returned) + 1]
                    /\ Len(returned') = Len(returned) + 1
              /\ (call'.op = "next" /\ has_iterator /\ Len(returned) = n) =>
                    /\ ret' = StopIteration
                    /\ index' = index
                    /\ returned' = returned]_vars

\* C25 witness: the client scenario of Iterator.py:92-101: three transactions were
\* added, an iterator created, three next() calls returned them in order, and a fourth
\* raised StopIteration.
C25_Witness ==
    /\ has_iterator
    /\ ~modified
    /\ call.op = "next"
    /\ ret = StopIteration
    /\ index = 3
    /\ transactions = <<[id |-> 1, amount |-> 100], [id |-> 2, amount |-> 200],
                        [id |-> 3, amount |-> 300]>>
    /\ returned = transactions

\* C26: a withdraw call with an amount greater than the balance raises ValueError
\* 'Insufficient funds' and leaves the balance and the history as they were; a withdraw
\* call with an amount not greater than the balance lowers the balance by the amount.
C26_WithdrawRefusesOrDeducts ==
    [][(call'.op = "withdraw") =>
          IF call'.arg > balance
          THEN /\ ret' = InsufficientFunds
               /\ balance' = balance
               /\ history' = history
          ELSE /\ ret' = None
               /\ balance' = balance - call'.arg
               /\ history' = history]_vars

\* C26 witness: with the balance 1 and one snapshot saved, withdraw(2) was refused.
C26_Witness ==
    /\ call = [op |-> "withdraw", arg |-> 2]
    /\ ret = InsufficientFunds
    /\ balance = 1
    /\ history = <<Memento(1)>>

\* C27: as long as no deposit and no withdrawal was called with a negative amount, the
\* balance is not negative, whatever the deposits, withdrawals accepted or refused,
\* saves and undos were.
C27_BalanceNotNegative == ~negative => balance >= 0

\* C27 witness: without any negative amount, the whole balance 2 was withdrawn, and
\* then an undo restored a balance saved before.
C27_Witness ==
    /\ ~negative
    /\ call.op = "undo"
    /\ undone # <<>>
    /\ undone[1].moved
    /\ balance = 0
    /\ history # <<>>
    /\ history[1] = Memento(2)

\* The place of a tag in the order New < Filled < Cancelled.
Rank(tag) ==
    CASE tag = "New" -> 1
      [] tag = "Filled" -> 2
      [] tag = "Cancelled" -> 3

\* C30: no process() or cancel() call moves the tag backwards along New < Filled <
\* Cancelled: a call leaves the tag or moves it forward, so the tag never returns to
\* New or from Cancelled to Filled, and changes at most twice.
C30_TagOnlyMovesForward ==
    [][/\ Rank(state') >= Rank(state)
       /\ state' # state => Rank(state') > Rank(state)
       /\ state' \in Tags]_vars

\* C30 witness: the tag has moved from New to Filled and from Filled to Cancelled, and
\* the calls made around those, process() and cancel() on each tag, moved nothing.
C30_Witness ==
    /\ trace = <<"fill", "fill", "cancel", "cancel", "fill">>
    /\ state = "Cancelled"
    /\ TagChanges("New", trace) = 2

\* a stands before b in the list.
Precedes(a, b, list) ==
    \E i, j \in DOMAIN list : i < j /\ list[i] = a /\ list[j] = b

\* C29: an update goes only to an observer that was attached and not detached since, so
\* a detached observer gets none until it is attached again; a step that takes an
\* observer out of the registry takes out that one alone and keeps the others in their
\* relative order, which is the order notify delivers in; detach of an observer that is
\* not registered, from the client or from inside an update, returns None and leaves
\* the registry as it is.
C29_DetachedObserverGetsNothing ==
    [][/\ Len(delivered') > Len(delivered)
            => /\ InSeq(delivered'[Len(delivered')].observer, regOrder)
               /\ InSeq(delivered'[Len(delivered')].observer, observers)
       /\ Len(observers') < Len(observers)
            => \E o \in Displays :
                   /\ InSeq(o, observers)
                   /\ ~InSeq(o, observers')
                   /\ ~InSeq(o, regOrder')
                   /\ \A a \in Displays \ {o} :
                          InSeq(a, observers) <=> InSeq(a, observers')
                   /\ \A a, b \in Displays \ {o} :
                          Precedes(a, b, observers) <=> Precedes(a, b, observers')
       /\ (pc = "idle" /\ pc' = "idle" /\ call'.op = "detach"
               /\ ~InSeq(call'.arg, observers))
            => observers' = observers /\ ret' = None
       /\ (pc = "update" /\ pc' = "update")
            => /\ ret' = None
               /\ Len(observers') = Len(observers) => observers' = observers]_vars

\* C29 witness: observers 1, 2 and 3 were attached in that order and 2 was detached and
\* not attached again; a later set_temperature(2) has returned, and its updates went to
\* 1 and then to 3, the two that remained, in their order.
C29_Witness ==
    /\ pc = "idle"
    /\ call = [op |-> "set_temperature", arg |-> 2]
    /\ ret = None
    /\ firstOrder = <<1, 2, 3>>
    /\ regOrder = <<1, 3>>
    /\ observers = <<1, 3>>
    /\ delivered = <<[observer |-> 1, value |-> 2], [observer |-> 3, value |-> 2]>>

\* Every set_temperature call so far has returned.
AllReturned == pc = "idle" /\ frames = <<>> /\ ret = None

\* The updates of call k that went to observer o.
ReceivedOf(k, o) == {i \in DOMAIN received : received[i].cycle = k /\ received[i].observer = o}

\* C28 as stated: when every call has returned, each call set_temperature(t), the
\* client's or one made from inside an update, has given each observer registered at
\* that time exactly one update, and that update carried t.  The code does not do this.
C28_Original ==
    AllReturned =>
        \A k \in DOMAIN cycles :
            \A o \in cycles[k].registered :
                /\ Cardinality(ReceivedOf(k, o)) = 1
                /\ \A i \in ReceivedOf(k, o) : received[i].value = cycles[k].value

====
